---- MODULE Spec2Model ----
(***************************************************************************)
(* State-machine model of the MFA manager: the account registry kept by    *)
(* the Flask handlers of src/app.py, the MFAAccount methods of             *)
(* src/models.py and the pyotp / base64 / urllib functions they call.      *)
(*                                                                         *)
(* Text is modelled as a sequence of one-character strings, bytes as a     *)
(* sequence of integers 0..255, Python's None as the value None.           *)
(***************************************************************************)
EXTENDS Integers, Sequences, FiniteSets, TLC

\* ------------------------------------------------------------------ bounds

\* Largest primary key the registry hands out.
MaxId == 2
\* Number of seconds the wall clock advances during a run.
MaxTicks == 2

\* ------------------------------------------------------------------- text

None == <<"None">>

UpperLetters ==
  <<"A","B","C","D","E","F","G","H","I","J","K","L","M",
    "N","O","P","Q","R","S","T","U","V","W","X","Y","Z">>

LowerLetters ==
  <<"a","b","c","d","e","f","g","h","i","j","k","l","m",
    "n","o","p","q","r","s","t","u","v","w","x","y","z">>

Digits == <<"0","1","2","3","4","5","6","7","8","9">>

Range(s) == { s[i] : i \in DOMAIN s }

IndexOf(s, c) == CHOOSE i \in DOMAIN s : s[i] = c

UpperSet == Range(UpperLetters)
LowerSet == Range(LowerLetters)

ToUpper == [ c \in LowerSet |-> UpperLetters[IndexOf(LowerLetters, c)] ]
ToLower == [ c \in UpperSet |-> LowerLetters[IndexOf(UpperLetters, c)] ]

\* str.upper() / bytes.upper() on ASCII text.
upper(s) == [ i \in DOMAIN s |-> IF s[i] \in LowerSet THEN ToUpper[s[i]] ELSE s[i] ]

\* str.lower() on ASCII text.
lower(s) == [ i \in DOMAIN s |-> IF s[i] \in UpperSet THEN ToLower[s[i]] ELSE s[i] ]

RECURSIVE Flatten(_)
Flatten(ss) == IF ss = <<>> THEN <<>> ELSE Head(ss) \o Flatten(Tail(ss))

\* str.replace(old, new) for a one-character old.
replace(s, old, new) ==
  Flatten([ i \in DOMAIN s |-> IF s[i] = old THEN new ELSE <<s[i]>> ])

RECURSIVE rstrip(_, _)
rstrip(s, c) ==
  IF s # <<>> /\ s[Len(s)] = c THEN rstrip(SubSeq(s, 1, Len(s) - 1), c) ELSE s

Repeat(c, n) == [ i \in 1..n |-> c ]

\* Python truthiness of an optional text: None and '' are falsy.
Truthy(s) == s # None /\ s # <<>>

\* ----------------------------------------------------------- secret codec

Normalize_NoUpper(secret) == replace(secret, " ", <<>>)

\* The secret as the handlers store it: secret.upper().replace(' ', '').
Normalize(secret) == replace(upper(secret), " ", <<>>)

B32Alphabet == UpperLetters \o <<"2","3","4","5","6","7">>

B32Digits == Range(B32Alphabet)

\* The value of a base-32 digit: its place in the alphabet.
B32Value == [ c \in B32Digits |-> IndexOf(B32Alphabet, c) - 1 ]

Ascii ==
  UpperSet \cup LowerSet \cup Range(Digits)
    \cup {" ", "=", "!", "-", "_", ".", "~", "@", "/", ":", "+", "%", "&", "?"}

\* acc.to_bytes(5) of the 8 digits v[8q-7 .. 8q]: acc = sum of v * 32^(8-k).
QuantumBytes(v, q) ==
  LET d(k) == v[8 * (q - 1) + k]
  IN  << 8 * d(1) + (d(2) \div 4),
         64 * (d(2) % 4) + 2 * d(3) + (d(4) \div 16),
         16 * (d(4) % 16) + (d(5) \div 2),
         128 * (d(5) % 2) + 4 * d(6) + (d(7) \div 8),
         32 * (d(7) % 8) + d(8) >>

\* base64.b32decode(s, casefold=True): [err |-> FALSE, bytes |-> ...] or the
\* exception it raises.  Every 8 digits give 5 bytes; of a padded last group
\* the first (43 - 5 * padchars) \div 8 bytes are kept.
b32decode(s0) ==
  IF \E i \in DOMAIN s0 : s0[i] \notin Ascii
    THEN [err |-> TRUE, what |-> "ValueError", bytes |-> <<>>]
  ELSE IF Len(s0) % 8 # 0
    THEN [err |-> TRUE, what |-> "Incorrect padding", bytes |-> <<>>]
  ELSE
    LET l == Len(s0)
        s == rstrip(upper(s0), "=")
        padchars == l - Len(s)
    IN  IF \E i \in DOMAIN s : s[i] \notin B32Digits
          THEN [err |-> TRUE, what |-> "Non-base32 digit found", bytes |-> <<>>]
        ELSE IF padchars \notin {0, 1, 3, 4, 6}
          THEN [err |-> TRUE, what |-> "Incorrect padding", bytes |-> <<>>]
        ELSE
          LET \* the digits' values; acc <<= 5 * padchars fills with zeros
              v == [ i \in 1..l |-> IF i <= Len(s) THEN B32Value[s[i]] ELSE 0 ]
              decoded == Flatten([ q \in 1..((Len(s) + 7) \div 8) |-> QuantumBytes(v, q) ])
              leftover == (43 - 5 * padchars) \div 8
          IN  [err |-> FALSE, what |-> "",
               bytes |-> IF padchars > 0 /\ decoded # <<>>
                           THEN SubSeq(decoded, 1, Len(decoded) - 5 + leftover)
                           ELSE decoded]

\* pyotp.OTP.byte_secret: pad to a multiple of 8, then decode.
byte_secret(secret) ==
  LET missing_padding == Len(secret) % 8
  IN  b32decode(IF missing_padding # 0
                  THEN secret \o Repeat("=", 8 - missing_padding)
                  ELSE secret)

\* ---------------------------------------------------------- OTP algorithm

\* pyotp.TOTP defaults: 6 digits, 30 second interval.
digits == 6
interval == 30
\* The literal window length of MFAAccount.get_remaining_time.
step == 30

\* hmac.new(key, counter as 8 big-endian bytes, sha1).digest(): the 20-byte
\* HMAC-SHA1 digests of the keys and counters the model reaches, tabulated.
HmacSha1(key, counter) ==
  CASE key = <<72, 101, 108, 108, 111>> /\ counter = 0 ->
       <<79, 3, 224, 150, 35, 247, 98, 83, 147, 16, 217, 188, 231, 38, 149, 107, 181, 161, 111, 193>>
    [] key = <<72, 101, 108, 108, 111>> /\ counter = 1 ->
       <<46, 64, 176, 194, 174, 132, 25, 10, 10, 53, 39, 253, 57, 113, 101, 92, 206, 187, 217, 164>>
    [] key = <<72, 101, 108, 108, 111>> /\ counter = 2 ->
       <<202, 15, 28, 239, 26, 140, 173, 213, 5, 106, 223, 173, 218, 26, 125, 204, 79, 65, 234, 11>>
    [] key = <<72, 101, 108, 108, 111>> /\ counter = 67506 ->
       <<168, 166, 96, 78, 161, 33, 52, 238, 61, 46, 218, 25, 45, 77, 113, 122, 51, 60, 201, 4>>
    [] key = <<72, 101, 108, 108, 111>> /\ counter = 67507 ->
       <<228, 22, 4, 11, 112, 12, 208, 181, 201, 47, 88, 48, 62, 201, 6, 142, 240, 127, 184, 242>>
    [] key = <<72, 101, 108, 108, 111>> /\ counter = 67508 ->
       <<173, 99, 248, 230, 227, 8, 12, 72, 162, 229, 157, 130, 74, 44, 219, 145, 141, 101, 89, 27>>
    [] key = <<72, 101, 108, 108, 111>> /\ counter = 67509 ->
       <<129, 133, 46, 235, 243, 39, 21, 0, 158, 99, 139, 68, 33, 14, 26, 40, 20, 187, 53, 104>>
    [] key = <<97, 98, 99>> /\ counter = 0 ->
       <<12, 88, 42, 226, 167, 119, 219, 75, 112, 189, 157, 70, 101, 231, 49, 83, 68, 130, 145, 6>>
    [] key = <<97, 98, 99>> /\ counter = 1 ->
       <<178, 126, 130, 123, 64, 247, 214, 226, 157, 149, 95, 211, 132, 31, 61, 73, 128, 174, 19, 208>>
    [] key = <<97, 98, 99>> /\ counter = 2 ->
       <<88, 233, 92, 236, 158, 99, 64, 123, 27, 8, 198, 86, 117, 127, 236, 29, 9, 237, 50, 211>>
    [] key = <<97, 98, 99>> /\ counter = 67506 ->
       <<26, 12, 151, 238, 241, 114, 70, 57, 204, 79, 97, 159, 67, 146, 126, 111, 189, 59, 49, 199>>
    [] key = <<97, 98, 99>> /\ counter = 67507 ->
       <<16, 223, 132, 98, 3, 234, 161, 214, 134, 44, 225, 222, 106, 168, 39, 134, 46, 17, 63, 169>>
    [] key = <<97, 98, 99>> /\ counter = 67508 ->
       <<81, 128, 245, 143, 184, 146, 153, 28, 182, 175, 143, 18, 54, 182, 203, 180, 164, 6, 112, 166>>
    [] key = <<97, 98, 99>> /\ counter = 67509 ->
       <<211, 228, 130, 24, 94, 222, 88, 66, 51, 206, 110, 113, 222, 224, 66, 14, 173, 77, 96, 190>>
    [] OTHER -> Repeat(0, 20)

\* RFC 4226 dynamic truncation as pyotp.OTP.generate_otp writes it:
\* offset = hmac_hash[-1] & 0xf; the 4 bytes at offset with the top bit masked.
Truncate(hmac_hash) ==
  LET offset == hmac_hash[20] % 16
  IN  (hmac_hash[offset + 1] % 128) * 16777216
        + hmac_hash[offset + 2] * 65536
        + hmac_hash[offset + 3] * 256
        + hmac_hash[offset + 4]

\* str(n) for n >= 0.
RECURSIVE str(_)
str(n) == IF n < 10 THEN <<Digits[n + 1]>> ELSE str(n \div 10) \o <<Digits[(n % 10) + 1]>>

RECURSIVE Pow10(_)
Pow10(n) == IF n = 0 THEN 1 ELSE 10 * Pow10(n - 1)

\* str(10_000_000_000 + v) for 0 <= v < 10^10: a "1" and v on ten places.
StrTenBillionPlus(v) == <<"1">> \o Repeat("0", 10 - Len(str(v))) \o str(v)

\* s[-n:]
Last(s, n) == SubSeq(s, Len(s) - n + 1, Len(s))

generate_otp_Unpadded(secret, input) ==
  CHOOSE otp \in
    { str(code % Pow10(digits)) :
        code \in { Truncate(hmac_hash) :
                     hmac_hash \in {HmacSha1(byte_secret(secret).bytes, input)} } } : TRUE

\* pyotp.OTP.generate_otp(input) for a secret that decodes:
\*   hmac_hash = hmac.new(self.byte_secret(), int_to_bytestring(input), sha1).digest()
\*   code = truncate(hmac_hash)
\*   str_code = str(10_000_000_000 + (code % 10 ** self.digits))
\*   return str_code[-self.digits:]
generate_otp(secret, input) ==
  CHOOSE otp \in
    { Last(StrTenBillionPlus(code % Pow10(digits)), digits) :
        code \in { Truncate(hmac_hash) :
                     hmac_hash \in {HmacSha1(byte_secret(secret).bytes, input)} } } : TRUE

timecode_Shifted(for_time) == (for_time + 1) \div interval

\* pyotp.TOTP.timecode(for_time): int(seconds / interval).
timecode(for_time) == for_time \div interval

\* MFAAccount.get_totp_code with the clock reading t: pyotp.TOTP(secret).now().
get_totp_code(secret, t) == generate_otp(secret, timecode(t))

get_remaining_time_FromZero(t) == (step - 1) - (t % step)

\* MFAAccount.get_remaining_time with the clock reading t.
get_remaining_time(t) == step - (t % step)

\* -------------------------------------------------- provisioning encoder

AlwaysSafe == UpperSet \cup LowerSet \cup Range(Digits) \cup {"_", ".", "-", "~"}

\* "%XX" of an ASCII character.
PercentEncode(c) ==
  CASE c = " " -> <<"%","2","0">>
    [] c = "!" -> <<"%","2","1">>
    [] c = "%" -> <<"%","2","5">>
    [] c = "&" -> <<"%","2","6">>
    [] c = "+" -> <<"%","2","B">>
    [] c = "/" -> <<"%","2","F">>
    [] c = ":" -> <<"%","3","A">>
    [] c = "=" -> <<"%","3","D">>
    [] c = "?" -> <<"%","3","F">>
    [] c = "@" -> <<"%","4","0">>

\* urllib.parse.quote(s, safe)
quote(s, safe) ==
  Flatten([ i \in DOMAIN s |->
              IF s[i] \in AlwaysSafe \cup safe THEN <<s[i]>> ELSE PercentEncode(s[i]) ])

\* urllib.parse.quote_plus(s): spaces become "+", "/" is not safe.
quote_plus(s) == replace(quote(s, {" "}), " ", <<"+">>)

\* urllib.parse.urlencode(url_args), url_args a sequence of <<key, value>>.
RECURSIVE urlencode(_)
urlencode(url_args) ==
  IF url_args = <<>> THEN <<>>
  ELSE quote_plus(Head(url_args)[1]) \o <<"=">> \o quote_plus(Head(url_args)[2])
         \o (IF Tail(url_args) = <<>> THEN <<>> ELSE <<"&">> \o urlencode(Tail(url_args)))

T_secret == <<"s","e","c","r","e","t">>
T_issuer == <<"i","s","s","u","e","r">>
T_algorithm == <<"a","l","g","o","r","i","t","h","m">>
T_digits == <<"d","i","g","i","t","s">>
T_period == <<"p","e","r","i","o","d">>
T_sha1 == <<"s","h","a","1">>
T_scheme == <<"o","t","p","a","u","t","h",":","/","/","t","o","t","p","/">>

\* pyotp.utils.build_uri(secret, name, issuer=..., algorithm=..., digits=...,
\* period=...): parameters equal to the defaults sha1 / 6 / 30 are left out.
build_uri(secret, name, issuer, algorithm, ndigits, period) ==
  LET label == IF issuer # None
                 THEN quote(issuer, {"/"}) \o <<":">> \o quote(name, {"/"})
                 ELSE quote(name, {"/"})
      url_args ==
        << <<T_secret, secret>> >>
          \o (IF issuer # None THEN << <<T_issuer, issuer>> >> ELSE <<>>)
          \o (IF algorithm # T_sha1 THEN << <<T_algorithm, upper(algorithm)>> >> ELSE <<>>)
          \o (IF ndigits # 6 THEN << <<T_digits, str(ndigits)>> >> ELSE <<>>)
          \o (IF period # 30 THEN << <<T_period, str(period)>> >> ELSE <<>>)
  IN  T_scheme \o label \o <<"?">> \o replace(urlencode(url_args), "+", <<"%","2","0">>)

provisioning_uri_Explicit(secret, name, issuer_name) ==
  build_uri(secret, name, IF Truthy(issuer_name) THEN issuer_name ELSE None,
            <<"s","h","a","2","5","6">>, digits, interval)

\* pyotp.TOTP.provisioning_uri(name, issuer_name): a falsy issuer is None.
provisioning_uri(secret, name, issuer_name) ==
  build_uri(secret, name, IF Truthy(issuer_name) THEN issuer_name ELSE None,
            T_sha1, digits, interval)

\* MFAAccount.get_qr_code_url
get_qr_code_url(account) ==
  provisioning_uri(account.secret, account.account_name, account.issuer)

\* ------------------------------------------------------------------ state

VARIABLES
  db,     \* table mfa_accounts: id -> [account_name, secret, issuer, hidden]
  now,    \* the wall clock, whole seconds since the epoch
  ticks,  \* seconds elapsed since the server started
  req     \* per request thread: the handler it runs and where it stands

vars == <<db, now, ticks, req>>

\* ----------------------------------------------------------------- inputs

N_a == <<"a">>
N_b == <<"b", "@", "c", " ", "d">>
I_default == <<"M","F","A"," ","M","a","n","a","g","e","r">>
I_acme == <<"A","c","m","e","/","X">>
S_hello == <<"J","B","S","W","Y","3","D","P">>
S_lower == <<"j","b","s","w","y","3","d","p">>
S_spaced == <<"J","B","S","W"," ","Y","3","D","P">>
S_leading == <<" ","M","F","R","G","G">>
S_unpadded == <<"M","F","R","G","G">>
S_padded == <<"m","f","r","g","g","=","=","=">>
S_blank == <<" ">>
S_bad == <<"n","o","t","-","b","a","s","e","3","2","!">>
S_short == <<"A">>
T_on == <<"o","n">>
T_true == <<"t","r","u","e">>
T_TRUE == <<"T","R","U","E">>
T_false == <<"f","a","l","s","e">>

Ids == 1..MaxId
\* Clock readings at server start: the epoch, and two seconds before the end
\* of the window in which the secret "abc" yields the value 42.
StartTimes == {0, 2025238}

\* ------------------------------------------------------------- the table

Columns == {"account_name", "secret", "issuer", "hidden"}

\* MFAAccount.query.filter_by(account_name=name).first() is not None
NameExists(table, name) == \E i \in DOMAIN table : table[i].account_name = name

\* The rowid SQLite gives the next INSERT.
NextId(table) ==
  IF DOMAIN table = {} THEN 1
  ELSE (CHOOSE m \in DOMAIN table : \A i \in DOMAIN table : i <= m) + 1

\* The ids of a set in ascending order.
RECURSIVE Ascending(_)
Ascending(S) ==
  IF S = {} THEN <<>>
  ELSE LET m == CHOOSE x \in S : \A y \in S : x <= y
       IN  <<m>> \o Ascending(S \ {m})

QueryAccounts_Unfiltered(table, show_all) ==
  LET order == Ascending(DOMAIN table)
  IN  [ k \in DOMAIN order |->
          [id |-> order[k], account_name |-> table[order[k]].account_name,
           secret |-> table[order[k]].secret, issuer |-> table[order[k]].issuer,
           hidden |-> table[order[k]].hidden] ]

\* MFAAccount.query.all() / .filter_by(hidden=False).all(), as loaded objects.
QueryAccounts(table, show_all) ==
  LET ids == { i \in DOMAIN table : show_all \/ ~ table[i].hidden }
      order == Ascending(ids)
  IN  [ k \in DOMAIN order |->
          [id |-> order[k], account_name |-> table[order[k]].account_name,
           secret |-> table[order[k]].secret, issuer |-> table[order[k]].issuer,
           hidden |-> table[order[k]].hidden] ]

Load(table, id) ==
  [id |-> id, account_name |-> table[id].account_name, secret |-> table[id].secret,
   issuer |-> table[id].issuer, hidden |-> table[id].hidden]

Remove(table, id) == [ i \in DOMAIN table \ {id} |-> table[i] ]

Insert(table, id, row) ==
  [ i \in DOMAIN table \cup {id} |-> IF i = id THEN row ELSE table[i] ]

\* ----------------------------------------------------------- the threads

NoForm == [account_name |-> None, secret |-> None, issuer |-> None, hidden |-> None]
NoAccount ==
  [id |-> 0, account_name |-> None, secret |-> None, issuer |-> None, hidden |-> FALSE]

Idle ==
  [pc |-> "idle", handler |-> "", method |-> "", form |-> NoForm,
   account |-> NoAccount, pending |-> NoAccount, accounts |-> <<>>,
   out |-> <<>>, totp_code |-> <<>>, code_at |-> 0, show_all |-> None, t0 |-> 0,
   outcome |-> ""]

Begin(handler, method) ==
  [Idle EXCEPT !.handler = handler, !.method = method, !.t0 = now]

\* The handler returns: the session and its loaded objects are dropped, what
\* stays is the request, the row it addressed and the response.
Finish(r, outcome) ==
  [r EXCEPT !.pc = "done", !.outcome = outcome,
            !.account = [NoAccount EXCEPT !.id = r.account.id],
            !.pending = [NoAccount EXCEPT !.id = r.pending.id]]

\* The secret passes the handlers' validation: pyotp.TOTP(secret).now()
\* raises nothing.
SecretAccepted(secret) == ~ byte_secret(secret).err

\* request.form.get('issuer', 'MFA Manager')
FormIssuer(issuer) == IF issuer = None THEN I_default ELSE issuer

\* request.args.get('show_all', 'false').lower() == 'true'
ShowAll(arg) == lower(IF arg = None THEN T_false ELSE arg) = T_true

\* ------------------------------------------------------------ add_account

\* POST /add up to the query for an existing name (app.py 45-73); GET and a
\* rejected POST render the form.
add_account(w, method, account_name, secret, issuer) ==
  /\ req[w].pc = "idle"
  /\ LET r == [Begin("add_account", method) EXCEPT
                 !.form = [account_name |-> account_name, secret |-> secret,
                           issuer |-> issuer, hidden |-> None]]
     IN  req' = [req EXCEPT ![w] =
           IF method = "GET" THEN Finish(r, "form")
           ELSE IF ~ Truthy(account_name) \/ ~ Truthy(secret)
             THEN Finish(r, "required")
           ELSE IF ~ SecretAccepted(secret)
             THEN Finish(r, "invalid_secret")
           ELSE IF NameExists(db, account_name)
             THEN Finish(r, "name_exists")
           ELSE [r EXCEPT !.pc = "add_commit",
                   !.pending =
                     [id |-> 0, account_name |-> account_name,
                      secret |-> Normalize(secret),
                      \* MFAAccount.__init__ sets a truthy issuer only; the
                      \* column default fills the rest at INSERT.
                      issuer |-> IF Truthy(FormIssuer(issuer))
                                   THEN FormIssuer(issuer) ELSE I_default,
                      hidden |-> FALSE]]]
  /\ UNCHANGED <<db, now, ticks>>

\* db.session.add(new_account); db.session.commit() (app.py 75-82): the
\* UNIQUE constraint on account_name fails the INSERT, which is rolled back.
add_commit(w) ==
  /\ req[w].pc = "add_commit"
  /\ IF NameExists(db, req[w].pending.account_name)
       THEN /\ req' = [req EXCEPT ![w] = Finish(@, "commit_error")]
            /\ UNCHANGED db
       ELSE /\ NextId(db) <= MaxId
            /\ db' = Insert(db, NextId(db),
                            [account_name |-> req[w].pending.account_name,
                             secret |-> req[w].pending.secret,
                             issuer |-> req[w].pending.issuer,
                             hidden |-> FALSE])
            /\ req' = [req EXCEPT ![w] =
                         Finish([@ EXCEPT !.pending.id = NextId(db)], "added")]
  /\ UNCHANGED <<now, ticks>>

\* ----------------------------------------------------------- edit_account

\* MFAAccount.query.get_or_404(account_id) (app.py 150)
edit_account(w, method, account_id) ==
  /\ req[w].pc = "idle"
  /\ req' = [req EXCEPT ![w] =
       IF account_id \notin DOMAIN db
         THEN Finish(Begin("edit_account", method), "not_found")
       ELSE IF method = "GET"
         THEN Finish([Begin("edit_account", method) EXCEPT
                        !.account = Load(db, account_id)], "form")
       ELSE [Begin("edit_account", method) EXCEPT
               !.pc = "edit_check", !.account = Load(db, account_id)]]
  /\ UNCHANGED <<db, now, ticks>>

\* The POST branch up to the assignments (app.py 153-182).
edit_check(w, new_account_name, new_secret, new_issuer, hidden) ==
  /\ req[w].pc = "edit_check"
  /\ LET r == [req[w] EXCEPT
                 !.form = [account_name |-> new_account_name, secret |-> new_secret,
                           issuer |-> new_issuer, hidden |-> hidden]]
     IN  req' = [req EXCEPT ![w] =
           IF ~ Truthy(new_account_name) \/ ~ Truthy(new_secret)
             THEN Finish(r, "required")
           ELSE IF ~ SecretAccepted(new_secret)
             THEN Finish(r, "invalid_secret")
           ELSE IF new_account_name # r.account.account_name
                     /\ NameExists(db, new_account_name)
             THEN Finish(r, "name_exists")
           ELSE [r EXCEPT !.pc = "edit_commit",
                   !.pending =
                     [id |-> r.account.id, account_name |-> new_account_name,
                      secret |-> Normalize(new_secret),
                      issuer |-> FormIssuer(new_issuer),
                      hidden |-> (hidden = T_on)]]]
  /\ UNCHANGED <<db, now, ticks>>

\* The columns whose value the session changed: the flush writes only these.
Changed(account, pending) == { c \in Columns : pending[c] # account[c] }

\* The row after UPDATE ... SET <changed columns> WHERE id = ...
Updated(row, pending, changed) ==
  [ c \in Columns |-> IF c \in changed THEN pending[c] ELSE row[c] ]

UpdateFails_NoUnique(table, id, pending, changed) == id \notin DOMAIN table

\* The flush of a changed object fails: no row has the id any more
\* (StaleDataError), or the new name is another row's (IntegrityError).
UpdateFails(table, id, pending, changed) ==
  \/ id \notin DOMAIN table
  \/ /\ "account_name" \in changed
     /\ \E i \in DOMAIN table \ {id} : table[i].account_name = pending.account_name

CommitUpdate_NoRollback(w, ok) ==
  LET id == req[w].account.id
      changed == Changed(req[w].account, req[w].pending)
  IN  IF changed = {}
        THEN /\ req' = [req EXCEPT ![w] = Finish(@, ok)]
             /\ UNCHANGED db
      ELSE IF UpdateFails(db, id, req[w].pending, changed)
        THEN /\ req' = [req EXCEPT ![w] = Finish(@, "commit_error")]
             /\ db' = IF id \in DOMAIN db
                        THEN [db EXCEPT ![id] =
                                Updated(@, req[w].pending, changed \ {"account_name"})]
                        ELSE db
      ELSE /\ db' = [db EXCEPT ![id] = Updated(@, req[w].pending, changed)]
           /\ req' = [req EXCEPT ![w] = Finish(@, ok)]

\* db.session.commit() of an edited or toggled account, with its rollback.
CommitUpdate(w, ok) ==
  LET id == req[w].account.id
      changed == Changed(req[w].account, req[w].pending)
  IN  IF changed = {}
        THEN /\ req' = [req EXCEPT ![w] = Finish(@, ok)]
             /\ UNCHANGED db
      ELSE IF UpdateFails(db, id, req[w].pending, changed)
        THEN /\ req' = [req EXCEPT ![w] = Finish(@, "commit_error")]
             /\ UNCHANGED db
      ELSE /\ db' = [db EXCEPT ![id] = Updated(@, req[w].pending, changed)]
           /\ req' = [req EXCEPT ![w] = Finish(@, ok)]

\* app.py 184-190
edit_commit(w) ==
  /\ req[w].pc = "edit_commit"
  /\ CommitUpdate(w, "updated")
  /\ UNCHANGED <<now, ticks>>

\* ---------------------------------------------------------- toggle_hidden

\* app.py 114-116
toggle_hidden(w, account_id) ==
  /\ req[w].pc = "idle"
  /\ req' = [req EXCEPT ![w] =
       IF account_id \notin DOMAIN db
         THEN Finish(Begin("toggle_hidden", "POST"), "not_found")
       ELSE [Begin("toggle_hidden", "POST") EXCEPT
               !.pc = "toggle_commit",
               !.account = Load(db, account_id),
               !.pending = [Load(db, account_id) EXCEPT !.hidden = ~ @]]]
  /\ UNCHANGED <<db, now, ticks>>

\* app.py 118-123
toggle_commit(w) ==
  /\ req[w].pc = "toggle_commit"
  /\ CommitUpdate(w, "toggled")
  /\ UNCHANGED <<now, ticks>>

\* --------------------------------------------------------- delete_account

\* app.py 134-135
delete_account(w, account_id) ==
  /\ req[w].pc = "idle"
  /\ req' = [req EXCEPT ![w] =
       IF account_id \notin DOMAIN db
         THEN Finish(Begin("delete_account", "POST"), "not_found")
       ELSE [Begin("delete_account", "POST") EXCEPT
               !.pc = "delete_commit", !.account = Load(db, account_id)]]
  /\ UNCHANGED <<db, now, ticks>>

\* app.py 137-143: a DELETE that matches no row only warns.
delete_commit(w) ==
  /\ req[w].pc = "delete_commit"
  /\ db' = Remove(db, req[w].account.id)
  /\ req' = [req EXCEPT ![w] = Finish(@, "deleted")]
  /\ UNCHANGED <<now, ticks>>

\* -------------------------------------------------- code-showing handlers

\* The handler has its accounts and goes on to read their codes.
Render(r, accounts) ==
  IF accounts = <<>> THEN Finish([r EXCEPT !.accounts = accounts], "rendered")
  ELSE [r EXCEPT !.pc = "totp_code", !.accounts = accounts]

\* GET / (app.py 21-26)
index(w, show_all) ==
  /\ req[w].pc = "idle"
  /\ req' = [req EXCEPT ![w] =
       Render([Begin("index", "GET") EXCEPT !.show_all = show_all],
              QueryAccounts(db, ShowAll(show_all)))]
  /\ UNCHANGED <<db, now, ticks>>

\* GET /api/codes (app.py 198-203)
get_all_codes(w, show_all) ==
  /\ req[w].pc = "idle"
  /\ req' = [req EXCEPT ![w] =
       Render([Begin("get_all_codes", "GET") EXCEPT !.show_all = show_all],
              QueryAccounts(db, ShowAll(show_all)))]
  /\ UNCHANGED <<db, now, ticks>>

\* GET /account/<id> (app.py 95)
view_account(w, account_id) ==
  /\ req[w].pc = "idle"
  /\ req' = [req EXCEPT ![w] =
       IF account_id \notin DOMAIN db
         THEN Finish(Begin("view_account", "GET"), "not_found")
         ELSE Render(Begin("view_account", "GET"), <<Load(db, account_id)>>)]
  /\ UNCHANGED <<db, now, ticks>>

\* GET /api/code/<id> (app.py 220)
get_single_code(w, account_id) ==
  /\ req[w].pc = "idle"
  /\ req' = [req EXCEPT ![w] =
       IF account_id \notin DOMAIN db
         THEN Finish(Begin("get_single_code", "GET"), "not_found")
         ELSE Render(Begin("get_single_code", "GET"), <<Load(db, account_id)>>)]
  /\ UNCHANGED <<db, now, ticks>>

\* 'totp_code': account.get_totp_code() of the next account: reads the clock.
totp_code(w) ==
  /\ req[w].pc = "totp_code"
  /\ LET r == req[w]
         account == r.accounts[Len(r.out) + 1]
     IN  req' = [req EXCEPT ![w] =
           [r EXCEPT !.pc = "remaining_time", !.code_at = now,
              !.totp_code = get_totp_code(account.secret, now)]]
  /\ UNCHANGED <<db, now, ticks>>

\* 'remaining_time': account.get_remaining_time() of the same account: reads
\* the clock again; view_account adds the provisioning URI.
remaining_time(w) ==
  /\ req[w].pc = "remaining_time"
  /\ LET r == req[w]
         account == r.accounts[Len(r.out) + 1]
         \* code_at and remaining_at record when each value was read.
         entry == [id |-> account.id, totp_code |-> r.totp_code,
                   remaining_time |-> get_remaining_time(now),
                   code_at |-> r.code_at, remaining_at |-> now,
                   qr_code_url |-> IF r.handler = "view_account"
                                     THEN get_qr_code_url(account) ELSE <<>>]
         out == Append(r.out, entry)
     IN  req' = [req EXCEPT ![w] =
           IF Len(out) = Len(r.accounts)
             THEN Finish([r EXCEPT !.out = out, !.totp_code = <<>>, !.code_at = 0],
                         "rendered")
             ELSE [r EXCEPT !.pc = "totp_code", !.out = out,
                            !.totp_code = <<>>, !.code_at = 0]]
  /\ UNCHANGED <<db, now, ticks>>

\* --------------------------------------------------------- the environment

\* A second passes.
Tick ==
  /\ ticks < MaxTicks
  /\ now' = now + 1
  /\ ticks' = ticks + 1
  /\ UNCHANGED <<db, req>>

\* The response is sent and the thread takes the next request.
Return(w) ==
  /\ req[w].pc = "done"
  /\ req' = [req EXCEPT ![w] = Idle]
  /\ UNCHANGED <<db, now, ticks>>

\* ---------------------------------------------------------- specifications

InitWith(threads, times) ==
  /\ db = <<>>
  /\ now \in times
  /\ ticks = 0
  /\ req = [w \in threads |-> Idle]

Threads == DOMAIN req

\* The registry under one request at a time: every form the handlers accept or
\* reject, the listings, no clock movement.
RegistryNames == {None, <<>>, N_a, N_b}
RegistrySecrets ==
  {None, <<>>, S_hello, S_lower, S_spaced, S_leading, S_unpadded, S_padded,
   S_blank, S_bad, S_short}
RegistryIssuers == {None}
RegistryHidden == {None, T_on}
ShowAllArgs == {None, T_true, T_TRUE, T_false}

Init == InitWith({1}, {0})

Next ==
  \/ \E w \in Threads : add_account(w, "GET", None, None, None)
  \/ \E w \in Threads, n \in RegistryNames, s \in RegistrySecrets,
        i \in RegistryIssuers : add_account(w, "POST", n, s, i)
  \/ \E w \in Threads : add_commit(w)
  \/ \E w \in Threads, m \in {"GET", "POST"}, id \in Ids : edit_account(w, m, id)
  \/ \E w \in Threads, n \in RegistryNames, s \in RegistrySecrets,
        i \in RegistryIssuers, h \in RegistryHidden : edit_check(w, n, s, i, h)
  \/ \E w \in Threads : edit_commit(w)
  \/ \E w \in Threads, id \in Ids : toggle_hidden(w, id)
  \/ \E w \in Threads : toggle_commit(w)
  \/ \E w \in Threads, id \in Ids : delete_account(w, id)
  \/ \E w \in Threads : delete_commit(w)
  \/ \E w \in Threads, a \in ShowAllArgs : index(w, a)
  \/ \E w \in Threads, a \in ShowAllArgs : get_all_codes(w, a)
  \/ \E w \in Threads : totp_code(w)
  \/ \E w \in Threads : remaining_time(w)
  \/ \E w \in Threads : Return(w)

Spec == Init /\ [][Next]_vars

\* Concurrent requests: the handlers that write, interleaved at their
\* database reads and commits.
ConcNames == {<<>>, N_a, N_b}
ConcSecrets == {S_hello, S_bad}
ConcHidden == {None, T_on}
\* Two requests race.
ConcThreads == {1, 2}

InitConc == InitWith(ConcThreads, {0})

NextConc ==
  \/ \E w \in Threads, n \in ConcNames, s \in ConcSecrets :
        add_account(w, "POST", n, s, None)
  \/ \E w \in Threads : add_commit(w)
  \/ \E w \in Threads, id \in Ids : edit_account(w, "POST", id)
  \/ \E w \in Threads, n \in ConcNames, s \in ConcSecrets, h \in ConcHidden :
        edit_check(w, n, s, None, h)
  \/ \E w \in Threads : edit_commit(w)
  \/ \E w \in Threads, id \in Ids : toggle_hidden(w, id)
  \/ \E w \in Threads : toggle_commit(w)
  \/ \E w \in Threads, id \in Ids : delete_account(w, id)
  \/ \E w \in Threads : delete_commit(w)
  \/ \E w \in Threads : Return(w)

SpecConc == InitConc /\ [][NextConc]_vars

\* The clock runs while one request at a time shows codes and provisioning
\* URIs of accounts added and edited with several names, issuers and secrets.
ClockNames == {N_a, N_b}
ClockSecrets == {S_hello, S_padded}
ClockIssuers == {None, I_acme}
ClockEditIssuers == {<<>>, I_acme}

InitClock == InitWith({1}, StartTimes)

NextClock ==
  \/ \E w \in Threads, n \in ClockNames, s \in ClockSecrets, i \in ClockIssuers :
        add_account(w, "POST", n, s, i)
  \/ \E w \in Threads : add_commit(w)
  \/ \E w \in Threads, id \in Ids : edit_account(w, "POST", id)
  \/ \E w \in Threads, n \in ClockNames, i \in ClockEditIssuers :
        edit_check(w, n, S_hello, i, None)
  \/ \E w \in Threads : edit_commit(w)
  \/ \E w \in Threads : index(w, None)
  \/ \E w \in Threads : get_all_codes(w, None)
  \/ \E w \in Threads, id \in Ids : view_account(w, id)
  \/ \E w \in Threads, id \in Ids : get_single_code(w, id)
  \/ \E w \in Threads : totp_code(w)
  \/ \E w \in Threads : remaining_time(w)
  \/ \E w \in Threads : Return(w)
  \/ Tick

SpecClock == InitClock /\ [][NextClock]_vars

\* ------------------------------------------------- properties: the registry

Done(w) == req[w].pc = "done"

Posted(w) ==
  /\ Done(w)
  /\ req[w].handler \in {"add_account", "edit_account"}
  /\ req[w].method = "POST"
  /\ req[w].form.secret # None

Stored(w) == Done(w) /\ req[w].outcome \in {"added", "updated"}

\* A valid Base32 secret up to spaces, letter case and missing padding.
Lenient(secret) == Truthy(secret) /\ SecretAccepted(Normalize(secret))

\* C4: an add or edit whose secret is a valid Base32 secret up to whitespace,
\* letter case or missing padding is not refused as an invalid secret, and
\* when it is stored the row holds the stripped, upper-cased text.
C4_LenientSecretAccepted ==
  \A w \in Threads :
    Posted(w) /\ Truthy(req[w].form.account_name) /\ Lenient(req[w].form.secret)
      => /\ req[w].outcome # "invalid_secret"
         /\ Stored(w) /\ req[w].pending.id \in DOMAIN db
              => db[req[w].pending.id].secret = Normalize(req[w].form.secret)

\* The digits of a stored secret: what precedes its trailing "=" padding.
DigitsOf(secret) == rstrip(secret, "=")

DecodesToBytes(secret) ==
  /\ ~ byte_secret(secret).err
  /\ Len(byte_secret(secret).bytes) >= 1

\* The secret is empty after stripping, has a character outside the Base32
\* alphabet before its trailing padding, or decodes to no byte.
BadSecret(secret) ==
  LET n == Normalize(secret)
  IN  \/ n = <<>>
      \/ ~ (Range(DigitsOf(n)) \subseteq B32Digits)
      \/ (~ byte_secret(n).err /\ byte_secret(n).bytes = <<>>)

\* The stripped, upper-cased secret has no Base32 decoding (a length that no
\* padding completes, a character outside the alphabet).
Undecodable(secret) == byte_secret(Normalize(secret)).err

Rejected(w) == req[w].outcome \in {"required", "invalid_secret"}

\* Refused as missing when empty, as invalid otherwise.
Refused(w) ==
  req[w].outcome = IF req[w].form.secret = <<>> THEN "required" ELSE "invalid_secret"

Listing(w) == Done(w) /\ req[w].handler \in {"index", "get_all_codes"}

Listed(w) == { req[w].out[k].id : k \in DOMAIN req[w].out }

Visible == { i \in DOMAIN db : ~ db[i].hidden }

\* A toggle_hidden commit by thread w.
Toggles(w) == req[w].pc = "toggle_commit" /\ req'[w].pc = "done"

NewAccountShown ==
  \A w \in Threads :
    Done(w) /\ req[w].outcome = "added" => ~ db[req[w].pending.id].hidden

ToggleFlipsOnlyHidden ==
  \A w \in Threads :
    Toggles(w) =>
      /\ req'[w].outcome = "toggled"
      /\ db' = [db EXCEPT ![req[w].account.id].hidden = ~ @]

ListingByShowAll ==
  \A w \in Threads :
    Listing(w) =>
      Listed(w) = IF lower(IF req[w].show_all = None THEN T_false
                           ELSE req[w].show_all) = T_true
                    THEN DOMAIN db ELSE Visible

\* C10 as stated: a listing called with show_all other than 'true' returns
\* exactly the accounts that are not hidden, with show_all = 'true' all of them.
C10_ListingExactTrue ==
  \A w \in Threads :
    Listing(w) =>
      Listed(w) = IF req[w].show_all = T_true THEN DOMAIN db ELSE Visible

\* C10, amended: with one request at a time, index and /api/codes return all
\* accounts when show_all is 'true' in any letter case and otherwise exactly
\* the accounts whose hidden flag is False; a new account starts shown, and
\* toggle_hidden flips the hidden flag of the addressed account and changes
\* nothing else.
C10_ListingFollowsHidden ==
  [][ListingByShowAll /\ ListingByShowAll' /\ NewAccountShown'
       /\ ToggleFlipsOnlyHidden]_vars

\* A default listing that leaves out a hidden account and shows another.
C10_Witness ==
  \E w \in Threads :
    /\ Listing(w) /\ req[w].show_all = None
    /\ Listed(w) # {} /\ Listed(w) # DOMAIN db

\* ------------------------------------------- properties: concurrent writes

UniqueNames ==
  \A i, j \in DOMAIN db : i # j => db[i].account_name # db[j].account_name

\* Thread w takes the step that ends its request.
Ends(w) == req[w].pc # "done" /\ req'[w].pc = "done"

ValidForm(form) == Truthy(form.account_name) /\ Lenient(form.secret)
                     /\ SecretAccepted(form.secret)

\* The existence checks: a valid add with a name the table holds, and a valid
\* edit that renames to a name the table holds, end with 'Account name
\* already exists!'; an edit that keeps its own name never does.
ExistenceChecks ==
  \A w \in Threads :
    /\ req[w].pc = "idle" /\ req'[w].handler = "add_account"
         /\ ValidForm(req'[w].form)
         => (NameExists(db, req'[w].form.account_name)
               <=> req'[w].outcome = "name_exists")
    /\ req[w].pc = "edit_check" /\ ValidForm(req'[w].form)
         => (/\ req'[w].form.account_name # req[w].account.account_name
             /\ NameExists(db, req'[w].form.account_name))
               <=> req'[w].outcome = "name_exists"

\* The unique constraint: a commit that would give two rows one name fails
\* and is rolled back; an edit that keeps its own name fails only when its
\* row is gone.
ConstraintRollsBack ==
  \A w \in Threads :
    /\ req[w].pc = "add_commit" /\ Ends(w)
         /\ NameExists(db, req[w].pending.account_name)
         => req'[w].outcome = "commit_error" /\ db' = db
    /\ req[w].pc = "edit_commit" /\ Ends(w)
         /\ req[w].pending.account_name # req[w].account.account_name
         /\ (\E i \in DOMAIN db \ {req[w].account.id} :
               db[i].account_name = req[w].pending.account_name)
         => req'[w].outcome = "commit_error" /\ db' = db
    /\ req[w].pc = "edit_commit" /\ Ends(w)
         /\ req[w].pending.account_name = req[w].account.account_name
         /\ req[w].account.id \in DOMAIN db
         => req'[w].outcome = "updated"

\* C8: under every interleaving of add, edit, toggle and delete requests no
\* two accounts have the same account_name; the existence checks refuse a
\* taken name, the unique constraint fails and rolls back the commit that
\* lost the race, and an edit keeping its own name is never refused as a
\* duplicate.
C8_NamesStayUnique ==
  [][UniqueNames /\ UniqueNames' /\ ExistenceChecks /\ ConstraintRollsBack]_vars

\* An add lost the race: it passed the existence check and its commit failed.
C8_Witness ==
  \E w \in Threads :
    Done(w) /\ req[w].handler = "add_account" /\ req[w].outcome = "commit_error"

Rejections == {"required", "invalid_secret", "name_exists", "commit_error"}

\* C9: a step of an add or edit request leaves the table as it is unless it
\* is the commit of an accepted request: a request that ends rejected
\* (missing field, invalid secret, duplicate name, failed commit) has
\* changed no account.
C9_RejectedLeavesRegistry ==
  [][\A w \in Threads :
       /\ req'[w] # req[w]
       /\ req'[w].handler \in {"add_account", "edit_account"}
       /\ ~ (Ends(w) /\ req'[w].outcome \in {"added", "updated"})
       => /\ db' = db
          /\ Ends(w) => req'[w].outcome \in Rejections \cup {"not_found"}]_vars

\* An edit passed its checks and its commit failed; the table holds accounts.
C9_Witness ==
  \E w \in Threads :
    /\ Done(w) /\ req[w].handler = "edit_account" /\ req[w].outcome = "commit_error"
    /\ DOMAIN db # {}

\* ------------------------------------------------ properties: the codes

Entries == { <<w, k>> \in Threads \X (1..MaxId) : k \in DOMAIN req[w].out }

Entry(e) == req[e[1]].out[e[2]]

SecretOf(e) == req[e[1]].accounts[e[2]].secret

\* C1: every remaining time returned is in 1..step, never 0, and is step
\* when the clock was read at a multiple of step; so is the remaining time at
\* every instant of the two windows that follow the clock's reading.
C1_RemainingInRange ==
  /\ \A e \in Entries :
       /\ Entry(e).remaining_time \in 1..step
       /\ Entry(e).remaining_at % step = 0 => Entry(e).remaining_time = step
       /\ Entry(e).remaining_time = step - (Entry(e).remaining_at % step)
  /\ \A t \in now .. (now + 2 * step) :
       /\ get_remaining_time(t) \in 1..step
       /\ t % step = 0 => get_remaining_time(t) = step

\* A remaining time read exactly at a window boundary after the clock moved.
C1_Witness ==
  \E e \in Entries :
    Entry(e).remaining_at % step = 0 /\ Entry(e).remaining_at > 0
      /\ Entry(e).remaining_time = step

\* C2: each (code, remaining) pair returned comes from one instant t of the
\* request: code = totp(secret, floor(t / step)) and remaining =
\* step - (t mod step).
C2_PairFromOneInstant ==
  \A e \in Entries :
    \E t \in req[e[1]].t0 .. now :
      /\ Entry(e).totp_code = generate_otp(SecretOf(e), t \div step)
      /\ Entry(e).remaining_time = step - (t % step)

Observed == (now - ticks) .. now

\* Every earlier instant of the run in the window of `now` gave the code of now.
SameWindowSameCode ==
  \A i \in DOMAIN db :
    LET code == get_totp_code(db[i].secret, now)
    IN  \A t \in Observed :
          t \div step = now \div step => get_totp_code(db[i].secret, t) = code

CodeChangesAtWrap ==
  now' = now + 1 =>
    \A i \in DOMAIN db :
      get_totp_code(db[i].secret, now') # get_totp_code(db[i].secret, now)
        => /\ now' \div step # now \div step
           /\ get_remaining_time(now) = 1
           /\ get_remaining_time(now') = step

\* C3: within one window floor(t / step) a stored secret gives one code, and
\* the code changes only as the counter changes, at the instant the remaining
\* time wraps from 1 to step.
C3_CodeFollowsWindow ==
  [][SameWindowSameCode /\ CodeChangesAtWrap]_vars

\* The clock has just crossed a boundary and a stored secret's code changed.
C3_Witness ==
  /\ ticks > 0 /\ now % step = 0
  /\ \E i \in DOMAIN db :
       get_totp_code(db[i].secret, now) # get_totp_code(db[i].secret, now - 1)

ZeroPadded(s, n) == Repeat("0", n - Len(s)) \o s

\* C7: every code returned has exactly `digits` characters, all decimal
\* digits: the truncated value modulo 10^digits, left-padded with zeros.
C7_CodeIsSixDigits ==
  \A e \in Entries :
    LET key == byte_secret(SecretOf(e)).bytes
        value == Truncate(HmacSha1(key, Entry(e).code_at \div interval))
                   % Pow10(digits)
    IN  /\ Len(Entry(e).totp_code) = digits
        /\ Range(Entry(e).totp_code) \subseteq Range(Digits)
        /\ Entry(e).totp_code = ZeroPadded(str(value), digits)

\* The value 42 was returned as "000042".
C7_Witness ==
  \E e \in Entries :
    /\ Truncate(HmacSha1(byte_secret(SecretOf(e)).bytes,
                         Entry(e).code_at \div interval)) % Pow10(digits) = 42
    /\ Entry(e).totp_code = <<"0","0","0","0","4","2">>

\* ------------------------------------------- properties: provisioning URI

Viewed == { e \in Entries : req[e[1]].handler = "view_account" }

AccountOf(e) == req[e[1]].accounts[e[2]]

\* "%XX" for every character that is not a letter, a digit or one of _.-~
Escaped(s) == quote(s, {})

T_q_secret == <<"?","s","e","c","r","e","t","=">>
T_a_issuer == <<"&","i","s","s","u","e","r","=">>
T_parameters ==
  <<"&","a","l","g","o","r","i","t","h","m","=","S","H","A","1",
    "&","d","i","g","i","t","s","=","6","&","p","e","r","i","o","d","=","3","0">>

====
